---- MODULE Spec2Model ----
(***************************************************************************)
(* SchedulingService (src/main.py): a browser session (driver, browser,    *)
(* context, page), a query flow navigate -> select type -> set date ->     *)
(* scrape, and a per-instance cache keyed by (appointment_type,            *)
(* date_preference).  Every await of the source is one step of a task.     *)
(***************************************************************************)
EXTENDS Integers, Sequences, FiniteSets, TLC

\* ------------------------------------------------------------- bounds
NumTasks == 2
MaxCalls == 2
MaxInits == 1
MaxCloses == 2
MaxSlots == 6
MaxLabelChanges == 1
MaxFaults == 2

\* ------------------------------------------------------------- constants
\* slots[:5]
SLOT_LIMIT == 5

\* Python's None as an argument value (the date_preference default)
None == "<None>"

RecognisedTypes == {"New appointment", "Emergency appointment", "Invisalign consultation"}

\* the arguments callers pass
InputTypes == RecognisedTypes \cup {"Root canal"}
InputDates == {None, "", "Oct 10, 2025"}

Tasks == 1..NumTasks
\* the task that issues the calls when every call is awaited before the next is made
Callers == {1}
Resources == {"page", "context", "browser", "playwright"}

\* ------------------------------------------------------------- state
VARIABLES
    playwright, browser, context, page,  \* handles: "none" | "held" | "released"
    closed,                              \* self.closed
    state,                               \* self.state: cache_key -> slot list
    pageTexts,                           \* texts of the page's .time-slot elements, document order
    selectedDate,                        \* text of the page's .selected-date label (coded)
    frame,                               \* per task: position and locals of its running coroutine
    last,                                \* outcome of the query call just completed, until the next call is made
    prev,                                \* arguments and result of the query call completed before that
    life,                                \* outcome of the most recently completed lifecycle call
    stored,                              \* history: cache_key -> the stores made under it (arguments, list)
    navCount,                            \* history: arguments -> number of page.goto invocations
    closeCalls,                          \* history: resource -> close()/stop() invocations since acquired
    closeRaised,                         \* history: a release step raised since the session was opened
    actor,                               \* history: the task whose goto or click acted on the page last (0: none)
    calls, inits, closes, labelChanges,  \* counters for the bounds
    faults                               \* failures of the browser layer so far

vars == <<playwright, browser, context, page, closed, state, pageTexts, selectedDate,
          frame, last, prev, life, stored, navCount, closeCalls, closeRaised, actor,
          calls, inits, closes, labelChanges, faults>>

engine == <<playwright, browser, context, page, closed>>
site == <<pageTexts, selectedDate, labelChanges, actor>>
counters == <<calls, inits, closes>>

\* ------------------------------------------------------------- helpers
Min(a, b) == IF a < b THEN a ELSE b

\* variant: only None is falsy
Truthy_notNone(d) == d # None

\* Python truthiness of date_preference: None and "" are falsy
Truthy(d) == d # None /\ d # ""

\* variant: the slice is dropped
Take_all(s, n) == s

\* s[:n]
Take(s, n) == SubSeq(s, 1, Min(n, Len(s)))

\* text of the i-th slot element of the page (minutes since midnight, 9:00 AM onwards)
TimeText(i) == 540 + 30 * (i - 1)

NoErr == <<"none", "none">>

IdleFrame ==
    [pc |-> "idle", appointment_type |-> None, date_preference |-> None,
     e |-> NoErr, slots |-> <<>>, available_slots |-> <<>>, time_text |-> 0,
     i |-> 0, trace |-> <<>>, during |-> {}, date0 |-> 0]

NoCall ==
    [op |-> "none", args |-> <<None, None>>, hit |-> FALSE, ok |-> TRUE,
     err |-> NoErr, orig |-> NoErr, result |-> <<>>, trace |-> <<>>, during |-> {},
     date0 |-> 0, date1 |-> 0, by |-> 0, actor |-> 0]

NoPrev == [args |-> <<None, None>>, hit |-> FALSE, ok |-> FALSE, result |-> <<>>, navs |-> 0]

NoLife == [op |-> "none", ok |-> TRUE, wasClosed |-> FALSE, followsOpen |-> FALSE,
           trace |-> <<>>]

\* number of invocations of capability cap in a trace
Count(trace, cap) == Cardinality({i \in 1..Len(trace) : trace[i].cap = cap})

AllIdle == \A u \in Tasks : frame[u].pc = "idle"

\* the tri-state lifecycle of the session
SessionState ==
    IF page = "none" THEN "not-started"
    ELSE IF page = "held" /\ ~closed THEN "open"
    ELSE "closed"

\* variant: the key leaves the date preference out
CacheKey_typeOnly(appointment_type, date_preference) == <<appointment_type, None>>

\* cache_key = (appointment_type, date_preference)
CacheKey(appointment_type, date_preference) == <<appointment_type, date_preference>>

\* variant: the lookup is skipped for queries without a date preference
CacheHit_onlyDated(st, cache_key) == cache_key \in DOMAIN st /\ Truthy(cache_key[2])

\* variant: the lookup never finds the key
CacheHit_never(st, cache_key) == FALSE

\* `if cache_key in self.state:`
CacheHit(st, cache_key) == cache_key \in DOMAIN st

\* self.state[cache_key] = available_slots
Store(st, k, v) == [x \in DOMAIN st \cup {k} |-> IF x = k THEN v ELSE st[x]]

Init ==
    /\ playwright = "none" /\ browser = "none" /\ context = "none" /\ page = "none"
    /\ closed = TRUE
    /\ state = <<>>
    /\ \E n \in 0..MaxSlots : pageTexts = [i \in 1..n |-> TimeText(i)]
    /\ selectedDate = 0
    /\ frame = [t \in Tasks |-> IdleFrame]
    /\ last = NoCall
    /\ prev = NoPrev
    /\ life = NoLife
    /\ stored = <<>>
    /\ navCount = [a \in InputTypes \X InputDates |-> 0]
    /\ closeCalls = [r \in Resources |-> 0]
    /\ closeRaised = FALSE
    /\ actor = 0
    /\ calls = 0 /\ inits = 0 /\ closes = 0 /\ labelChanges = 0 /\ faults = 0

history == <<stored, navCount>>
queries == <<last, prev>>

\* the next call is made: the outcome of the last query call becomes the previous one
Archived == IF last.op = "query"
            THEN [args |-> last.args, hit |-> last.hit, ok |-> last.ok,
                  result |-> last.result, navs |-> Count(last.trace, "goto")]
            ELSE prev

\* ------------------------------------------------------------- lifecycle
\* the outcomes of a call into the browser layer: it returns (TRUE) or raises (FALSE)
Outcomes == IF faults < MaxFaults THEN BOOLEAN ELSE {TRUE}
Injected(ok) == faults' = IF ok THEN faults ELSE faults + 1

SetFrame(t, f) == frame' = [frame EXCEPT ![t] = f]
Jump(t, label) == frame' = [frame EXCEPT ![t].pc = label]

\* a lifecycle coroutine finishes (returns or raises)
LifeDone(t, name, isOk, wasClosed, tr) ==
    /\ SetFrame(t, IdleFrame)
    /\ life' = [op |-> name, ok |-> isOk, wasClosed |-> wasClosed, trace |-> tr,
                followsOpen |-> /\ name = "close"
                                /\ \/ ~wasClosed
                                   \/ life.op = "close" /\ life.ok /\ life.followsOpen]

\* initialize_browser is called: runs up to the first await
InitializeBrowser(t) ==
    /\ AllIdle
    /\ inits < MaxInits
    /\ inits' = inits + 1
    /\ Jump(t, "init_start")
    /\ prev' = Archived /\ last' = NoCall
    /\ life' = NoLife
    /\ UNCHANGED <<engine, state, site, history, closeCalls, closeRaised,
                   calls, closes, faults>>

\* self.playwright = await async_playwright().start()
InitStart(t) ==
    /\ frame[t].pc = "init_start"
    /\ \E ok \in Outcomes :
      /\ Injected(ok)
      /\ IF ok
        THEN /\ playwright' = "held"
             /\ closeCalls' = [closeCalls EXCEPT !["playwright"] = 0]
             /\ Jump(t, "init_launch")
             /\ UNCHANGED life
        ELSE /\ LifeDone(t, "init", FALSE, closed, <<>>)
             /\ UNCHANGED <<playwright, closeCalls>>
    /\ UNCHANGED <<browser, context, page, closed, state, site, queries, history,
                   closeRaised, counters>>

\* self.browser = await self.playwright.chromium.launch(headless=headless)
InitLaunch(t) ==
    /\ frame[t].pc = "init_launch"
    /\ \E ok \in Outcomes :
      /\ Injected(ok)
      /\ IF ok
        THEN /\ browser' = "held"
             /\ closeCalls' = [closeCalls EXCEPT !["browser"] = 0]
             /\ Jump(t, "init_context")
             /\ UNCHANGED life
        ELSE /\ LifeDone(t, "init", FALSE, closed, <<>>)
             /\ UNCHANGED <<browser, closeCalls>>
    /\ UNCHANGED <<playwright, context, page, closed, state, site, queries, history,
                   closeRaised, counters>>

\* self.context = await self.browser.new_context()
InitContext(t) ==
    /\ frame[t].pc = "init_context"
    /\ \E ok \in Outcomes :
      /\ Injected(ok)
      /\ IF ok
        THEN /\ context' = "held"
             /\ closeCalls' = [closeCalls EXCEPT !["context"] = 0]
             /\ Jump(t, "init_page")
             /\ UNCHANGED life
        ELSE /\ LifeDone(t, "init", FALSE, closed, <<>>)
             /\ UNCHANGED <<context, closeCalls>>
    /\ UNCHANGED <<playwright, browser, page, closed, state, site, queries, history,
                   closeRaised, counters>>

\* self.page = await self.context.new_page(); self.closed = False
InitPage(t) ==
    /\ frame[t].pc = "init_page"
    /\ \E ok \in Outcomes :
      /\ Injected(ok)
      /\ IF ok
        THEN /\ page' = "held"
             /\ closed' = FALSE
             /\ closeCalls' = [closeCalls EXCEPT !["page"] = 0]
             /\ closeRaised' = FALSE
             /\ LifeDone(t, "init", TRUE, closed, <<>>)
        ELSE /\ LifeDone(t, "init", FALSE, closed, <<>>)
             /\ UNCHANGED <<page, closed, closeCalls, closeRaised>>
    /\ UNCHANGED <<playwright, browser, context, state, site, queries, history, counters>>

\* variant: the guard is dropped
ShouldRelease_always(isClosed) == TRUE

\* `if not self.closed:`
ShouldRelease(isClosed) == ~isClosed

\* close_browser is called: the guard, then up to the first await
CloseBrowser(t) ==
    /\ AllIdle
    /\ closes < MaxCloses
    /\ closes' = closes + 1
    /\ IF ShouldRelease(closed)
       THEN /\ frame' = [frame EXCEPT ![t].pc = "close_page"]
            /\ UNCHANGED life
       ELSE LifeDone(t, "close", TRUE, TRUE, <<>>)
    /\ prev' = Archived /\ last' = NoCall
    /\ UNCHANGED <<engine, state, site, history, closeCalls, closeRaised,
                   calls, inits, faults>>

\* one release call on a handle: a held handle is released or the call raises;
\* a handle released before is closed again, which the library accepts or rejects
Release(t, r, h, h2, next) ==
    /\ closeCalls' = [closeCalls EXCEPT ![r] = IF h = "none" THEN @ ELSE @ + 1]
    /\ \E ok \in (IF h = "none" THEN {FALSE} ELSE Outcomes) :
        /\ faults' = IF ok \/ h = "none" THEN faults ELSE faults + 1
        /\ IF ok
           THEN /\ h2 = "released"
                /\ IF next = "done"
                   THEN /\ closed' = TRUE
                        /\ LifeDone(t, "close", TRUE, FALSE, Append(frame[t].trace, r))
                   ELSE /\ closed' = closed
                        /\ frame' = [frame EXCEPT ![t].pc = next,
                                                  ![t].trace = Append(@, r)]
                        /\ UNCHANGED life
                /\ UNCHANGED closeRaised
           ELSE /\ h2 = h
                /\ closed' = closed
                /\ closeRaised' = TRUE
                /\ LifeDone(t, "close", FALSE, FALSE, Append(frame[t].trace, r))

\* await self.page.close()
ClosePage(t) ==
    /\ frame[t].pc = "close_page"
    /\ Release(t, "page", page, page', "close_context")
    /\ UNCHANGED <<playwright, browser, context, state, site, queries, history, counters>>

\* await self.context.close()
CloseContext(t) ==
    /\ frame[t].pc = "close_context"
    /\ Release(t, "context", context, context', "close_browser")
    /\ UNCHANGED <<playwright, browser, page, state, site, queries, history, counters>>

\* await self.browser.close()
CloseBrowserProcess(t) ==
    /\ frame[t].pc = "close_browser"
    /\ Release(t, "browser", browser, browser', "close_stop")
    /\ UNCHANGED <<playwright, context, page, state, site, queries, history, counters>>

\* await self.playwright.stop(); self.closed = True
CloseStop(t) ==
    /\ frame[t].pc = "close_stop"
    /\ Release(t, "playwright", playwright, playwright', "done")
    /\ UNCHANGED <<browser, context, page, state, site, queries, history, counters>>

\* ------------------------------------------------------------- the site
\* the page's selected-date label changes.  The label is observed only by the read at
\* line 94 and by the query that precedes the loop, so a change is taken at the last
\* point before the next observation: changes made earlier (between calls, during
\* navigation or clicks) have the same effect as one made there.
LabelChange ==
    /\ labelChanges < MaxLabelChanges
    /\ \E t \in Tasks : frame[t].pc \in {"query_selector_all", "date_inner_text"}
    /\ labelChanges' = labelChanges + 1
    /\ selectedDate' = selectedDate + 1
    /\ UNCHANGED <<engine, state, pageTexts, actor, frame, queries, life, history,
                   closeCalls, closeRaised, counters, faults>>

\* ------------------------------------------------------------- query flow
Ev(cap, arg) == [cap |-> cap, arg |-> arg]

\* the frame after a capability of self.page has been invoked
Invoked(f, cap, arg) ==
    [f EXCEPT !.trace = Append(@, Ev(cap, arg)), !.during = @ \cup {SessionState}]

\* the frame after an exception reached the except clause at `handler`
Caught(f, kind, cap, handler) == [f EXCEPT !.pc = handler, !.e = <<kind, cap>>]

\* await self.page.<cap>(arg) inside a try block: self.page is None (attribute error,
\* nothing invoked), a closed page (invoked, rejected), or a live page (either outcome)
PageCall(t, cap, arg, handler, okFrame) ==
    IF page = "none"
    THEN /\ SetFrame(t, Caught(frame[t], "AttributeError", cap, handler))
         /\ UNCHANGED faults
    ELSE IF page = "released"
    THEN /\ SetFrame(t, Caught(Invoked(frame[t], cap, arg), "TargetClosedError", cap,
                               handler))
         /\ UNCHANGED faults
    ELSE \E ok \in Outcomes :
            /\ Injected(ok)
            /\ SetFrame(t, IF ok THEN okFrame
                           ELSE Caught(Invoked(frame[t], cap, arg), "Error", cap, handler))

\* a query coroutine whose frame is f finishes (returns or raises)
QueryDone(t, f, isHit, isOk, error, res) ==
    /\ SetFrame(t, IdleFrame)
    /\ last' = [op |-> "query", args |-> <<f.appointment_type, f.date_preference>>,
                hit |-> isHit, ok |-> isOk, err |-> error, orig |-> f.e,
                result |-> res, trace |-> f.trace, during |-> f.during,
                date0 |-> f.date0, date1 |-> selectedDate, by |-> t, actor |-> actor]

\* variant: the except clause caches what was scraped before the failure
ErrorScreenshot_caching(t) ==
    /\ state' = Store(state, CacheKey(frame[t].appointment_type, frame[t].date_preference),
                      frame[t].available_slots)
    /\ stored' = stored
    /\ \E ok \in Outcomes :
          /\ Injected(ok)
          /\ QueryDone(t, frame[t], FALSE, FALSE,
                       IF ok THEN frame[t].e ELSE <<"Error", "screenshot">>, <<>>)

\* an except clause: `await self.page.screenshot(path=...)`, then `raise`
ErrorScreenshot(t) ==
    /\ UNCHANGED <<state, stored>>
    /\ IF page = "none"
       THEN /\ QueryDone(t, frame[t], FALSE, FALSE, <<"AttributeError", "screenshot">>, <<>>)
            /\ UNCHANGED faults
       ELSE LET f == Invoked(frame[t], "screenshot", "error_screenshot.png")
            IN  IF page = "released"
                THEN /\ QueryDone(t, f, FALSE, FALSE, <<"TargetClosedError", "screenshot">>,
                                  <<>>)
                     /\ UNCHANGED faults
                ELSE \E ok \in Outcomes :
                        /\ Injected(ok)
                        /\ QueryDone(t, f, FALSE, FALSE,
                                     IF ok THEN f.e ELSE <<"Error", "screenshot">>, <<>>)

\* check_available_appointments from its entry up to the first await: the cache lookup
CheckStart(t, appointment_type, date_preference) ==
    /\ calls < MaxCalls
    /\ calls' = calls + 1
    /\ LET cache_key == CacheKey(appointment_type, date_preference)
           f == [IdleFrame EXCEPT !.appointment_type = appointment_type,
                                  !.date_preference = date_preference]
       IN  IF CacheHit(state, cache_key)
           THEN QueryDone(t, f, TRUE, TRUE, NoErr, state[cache_key])
           ELSE /\ frame' = [frame EXCEPT ![t] = [f EXCEPT !.pc = "goto"]]
                /\ last' = NoCall
    /\ prev' = Archived
    /\ UNCHANGED <<engine, state, site, life, history, closeCalls, closeRaised, inits, closes,
                   faults>>

\* check_available_appointments is called by a caller that awaits every call before it
\* makes the next
CheckAvailableAppointments(t, appointment_type, date_preference) ==
    /\ AllIdle
    /\ CheckStart(t, appointment_type, date_preference)

\* await self.page.goto(self.url)
PageGoto(t) ==
    /\ frame[t].pc = "goto"
    /\ PageCall(t, "goto", "url", "navigate_error",
                [Invoked(frame[t], "goto", "url") EXCEPT !.pc = "wait_for_load_state"])
    /\ navCount' = IF page = "held"
                   THEN [navCount EXCEPT ![<<frame[t].appointment_type,
                                             frame[t].date_preference>>] = @ + 1]
                   ELSE navCount
    /\ actor' = IF page = "held" THEN t ELSE actor
    /\ UNCHANGED <<engine, state, pageTexts, selectedDate, labelChanges, queries, life, stored,
                   closeCalls, closeRaised, counters>>

\* await self.page.wait_for_load_state('networkidle')
WaitForLoadState(t) ==
    /\ frame[t].pc = "wait_for_load_state"
    /\ PageCall(t, "wait_for_load_state", "networkidle", "navigate_error",
                [Invoked(frame[t], "wait_for_load_state", "networkidle")
                    EXCEPT !.pc = "select"])
    /\ UNCHANGED <<engine, state, site, queries, life, history, closeCalls, closeRaised, counters>>

\* except clause of navigate_to_scheduling_page
NavigateError(t) ==
    /\ frame[t].pc = "navigate_error"
    /\ ErrorScreenshot(t)
    /\ UNCHANGED <<engine, site, prev, life, navCount, closeCalls, closeRaised, counters>>

\* variant: the scrape starts without waiting for the slot selector
AfterSelect_scrapeFirst(date_preference) ==
    IF Truthy(date_preference) THEN "date_click" ELSE "query_selector_all"

\* the pc after select_appointment_type_direct_click returned:
\* `if date_preference:` in the caller, `if date_preference:` in set_date_preference
AfterSelect(date_preference) ==
    IF Truthy(date_preference)
    THEN IF Truthy(date_preference) THEN "date_click" ELSE "wait_for_selector"
    ELSE "wait_for_selector"

\* the if/elif chain of select_appointment_type_direct_click: the text clicked
ClickTarget(appointment_type) ==
    IF appointment_type = "New appointment" THEN "New appointment"
    ELSE IF appointment_type = "Emergency appointment" THEN "Emergency appointment"
    ELSE IF appointment_type = "Invisalign consultation" THEN "Invisalign consultation"
    ELSE None

\* try block of select_appointment_type_direct_click
SelectAppointmentType(t) ==
    /\ frame[t].pc = "select"
    /\ LET target == ClickTarget(frame[t].appointment_type)
       IN  IF target # None
           THEN PageCall(t, "click", target, "select_error",
                         [Invoked(frame[t], "click", target)
                             EXCEPT !.pc = AfterSelect(frame[t].date_preference)])
           ELSE /\ SetFrame(t, Caught(frame[t], "ValueError", "select", "select_error"))
                /\ UNCHANGED faults
    /\ actor' = IF page = "held" /\ ClickTarget(frame[t].appointment_type) # None
                THEN t ELSE actor
    /\ UNCHANGED <<engine, state, pageTexts, selectedDate, labelChanges, queries, life, history,
                   closeCalls, closeRaised, counters>>

\* except clause of select_appointment_type_direct_click
SelectError(t) ==
    /\ frame[t].pc = "select_error"
    /\ ErrorScreenshot(t)
    /\ UNCHANGED <<engine, site, prev, life, navCount, closeCalls, closeRaised, counters>>

\* await self.page.click(f'text="{date_preference}"')
SetDatePreference(t) ==
    /\ frame[t].pc = "date_click"
    /\ PageCall(t, "click", frame[t].date_preference, "date_error",
                [Invoked(frame[t], "click", frame[t].date_preference)
                    EXCEPT !.pc = "wait_for_selector"])
    /\ actor' = IF page = "held" THEN t ELSE actor
    /\ UNCHANGED <<engine, state, pageTexts, selectedDate, labelChanges, queries, life, history,
                   closeCalls, closeRaised, counters>>

\* except clause of set_date_preference
DateError(t) ==
    /\ frame[t].pc = "date_error"
    /\ ErrorScreenshot(t)
    /\ UNCHANGED <<engine, site, prev, life, navCount, closeCalls, closeRaised, counters>>

\* variant: an empty list is returned without being cached
StoreAndReturn_skipEmpty(t, f) ==
    LET cache_key == CacheKey(f.appointment_type, f.date_preference)
    IN  /\ state' = IF f.available_slots = <<>> THEN state
                    ELSE Store(state, cache_key, f.available_slots)
        /\ stored' = stored
        /\ QueryDone(t, f, FALSE, TRUE, NoErr, f.available_slots)

\* self.state[cache_key] = available_slots; return available_slots
StoreAndReturn(t, f) ==
    LET cache_key == CacheKey(f.appointment_type, f.date_preference)
    IN  /\ state' = Store(state, cache_key, f.available_slots)
        /\ stored' = Store(stored, cache_key,
                            Append(IF cache_key \in DOMAIN stored THEN stored[cache_key] ELSE <<>>,
                                   [args |-> <<f.appointment_type, f.date_preference>>,
                                    result |-> f.available_slots]))
        /\ QueryDone(t, f, FALSE, TRUE, NoErr, f.available_slots)

\* await self.page.wait_for_selector('.time-slot', timeout=10000)
WaitForSelector(t) ==
    /\ frame[t].pc = "wait_for_selector"
    /\ PageCall(t, "wait_for_selector", ".time-slot", "slots_error",
                [Invoked(frame[t], "wait_for_selector", ".time-slot")
                    EXCEPT !.pc = "query_selector_all"])
    /\ UNCHANGED <<engine, state, site, queries, life, history, closeCalls, closeRaised, counters>>

\* slots = await self.page.query_selector_all('.time-slot'); for slot in slots[:5]
QuerySelectorAll(t) ==
    /\ frame[t].pc = "query_selector_all"
    /\ LET handles == [i \in 1..Len(pageTexts) |-> i]
           f == [Invoked(frame[t], "query_selector_all", ".time-slot")
                    EXCEPT !.slots = handles, !.available_slots = <<>>, !.i = 1,
                           !.date0 = selectedDate]
       IN  IF page = "held" /\ Take(handles, SLOT_LIMIT) = <<>>
           THEN \/ StoreAndReturn(t, f) /\ UNCHANGED faults
                \/ /\ FALSE \in Outcomes /\ Injected(FALSE)
                   /\ SetFrame(t, Caught(f, "Error", "query_selector_all", "slots_error"))
                   /\ UNCHANGED <<state, stored, last>>
           ELSE /\ PageCall(t, "query_selector_all", ".time-slot", "slots_error",
                            [f EXCEPT !.pc = "slot_inner_text"])
                /\ UNCHANGED <<state, stored, last>>
    /\ UNCHANGED <<engine, site, prev, life, navCount, closeCalls, closeRaised, counters>>

\* time_text = await slot.inner_text()
SlotInnerText(t) ==
    /\ frame[t].pc = "slot_inner_text"
    /\ LET slot == Take(frame[t].slots, SLOT_LIMIT)[frame[t].i]
       IN  PageCall(t, "inner_text", ".time-slot", "slots_error",
                    [Invoked(frame[t], "inner_text", ".time-slot")
                        EXCEPT !.time_text = pageTexts[slot], !.pc = "date_inner_text"])
    /\ UNCHANGED <<engine, state, site, queries, life, history, closeCalls, closeRaised, counters>>

\* date_text = await self.page.locator('.selected-date').inner_text(); append; next slot
DateInnerText(t) ==
    /\ frame[t].pc = "date_inner_text"
    /\ LET f == [Invoked(frame[t], "inner_text", ".selected-date")
                    EXCEPT !.available_slots =
                               Append(@, [date |-> selectedDate, time |-> frame[t].time_text]),
                           !.i = @ + 1, !.pc = "slot_inner_text"]
       IN  IF page = "held" /\ frame[t].i = Len(Take(frame[t].slots, SLOT_LIMIT))
           THEN \/ StoreAndReturn(t, f) /\ UNCHANGED faults
                \/ /\ FALSE \in Outcomes /\ Injected(FALSE)
                   /\ SetFrame(t, Caught(Invoked(frame[t], "inner_text", ".selected-date"),
                                         "Error", "inner_text", "slots_error"))
                   /\ UNCHANGED <<state, stored, last>>
           ELSE /\ PageCall(t, "inner_text", ".selected-date", "slots_error", f)
                /\ UNCHANGED <<state, stored, last>>
    /\ UNCHANGED <<engine, site, prev, life, navCount, closeCalls, closeRaised, counters>>

\* except clause of get_available_slots
SlotsError(t) ==
    /\ frame[t].pc = "slots_error"
    /\ ErrorScreenshot(t)
    /\ UNCHANGED <<engine, site, prev, life, navCount, closeCalls, closeRaised, counters>>

\* ------------------------------------------------------------- specification
Next ==
    \/ LabelChange
    \/ \E t \in Callers :
        \/ InitializeBrowser(t)
        \/ InitStart(t)
        \/ InitLaunch(t)
        \/ InitContext(t)
        \/ InitPage(t)
        \/ CloseBrowser(t)
        \/ ClosePage(t)
        \/ CloseContext(t)
        \/ CloseBrowserProcess(t)
        \/ CloseStop(t)
        \/ \E ty \in InputTypes, d \in InputDates : CheckAvailableAppointments(t, ty, d)
        \/ PageGoto(t)
        \/ WaitForLoadState(t)
        \/ NavigateError(t)
        \/ SelectAppointmentType(t)
        \/ SelectError(t)
        \/ SetDatePreference(t)
        \/ DateError(t)
        \/ WaitForSelector(t)
        \/ QuerySelectorAll(t)
        \/ SlotInnerText(t)
        \/ DateInnerText(t)
        \/ SlotsError(t)

Spec == Init /\ [][Next]_vars

AllArgs == InputTypes \X InputDates

KeyOf(a) == CacheKey(a[1], a[2])

\* ------------------------------------------------------------- callers that keep the list
\* `return self.state[cache_key]` and `return available_slots` hand the caller the very list
\* object the cache holds; here the caller of the last successful call empties that list
\* (`result.clear()`), which empties the cache entry with it
CallerClearsReturned ==
    /\ AllIdle
    /\ last.op = "query" /\ last.ok
    /\ KeyOf(last.args) \in DOMAIN state
    /\ state[KeyOf(last.args)] # <<>>
    /\ state' = [state EXCEPT ![KeyOf(last.args)] = <<>>]
    /\ UNCHANGED <<engine, site, frame, queries, life, history, closeCalls, closeRaised,
                   counters, faults>>

SpecAlias == Init /\ [][Next \/ CallerClearsReturned]_vars

\* ------------------------------------------------------------- main()
\* `await service.initialize_browser(headless=True)`: the first statement of the try block
MainInit(t) ==
    /\ inits = 0 /\ calls = 0 /\ closes = 0
    /\ InitializeBrowser(t)

\* `await service.check_available_appointments("New appointment", None)`: reached when
\* initialize_browser returned
MainQuery(t) ==
    /\ calls = 0 /\ closes = 0
    /\ life.op = "init" /\ life.ok
    /\ CheckAvailableAppointments(t, "New appointment", None)

\* variant: close_browser follows the try block only when the block ran to its end
FinallyDue_onSuccess ==
    /\ AllIdle
    /\ calls = 1 /\ last.op = "query" /\ last.ok

\* control leaves the try block: initialize_browser raised, or the query returned or raised
FinallyDue ==
    /\ AllIdle
    /\ \/ life.op = "init" /\ ~life.ok
       \/ calls = 1 /\ last.op = "query"

\* `finally: await service.close_browser()`
MainFinally(t) ==
    /\ closes = 0
    /\ FinallyDue
    /\ CloseBrowser(t)

MainNext ==
    \/ LabelChange
    \/ \E t \in Callers :
        \/ MainInit(t)
        \/ InitStart(t)
        \/ InitLaunch(t)
        \/ InitContext(t)
        \/ InitPage(t)
        \/ MainQuery(t)
        \/ PageGoto(t)
        \/ WaitForLoadState(t)
        \/ NavigateError(t)
        \/ SelectAppointmentType(t)
        \/ SelectError(t)
        \/ WaitForSelector(t)
        \/ QuerySelectorAll(t)
        \/ SlotInnerText(t)
        \/ DateInnerText(t)
        \/ SlotsError(t)
        \/ MainFinally(t)
        \/ ClosePage(t)
        \/ CloseContext(t)
        \/ CloseBrowserProcess(t)
        \/ CloseStop(t)

SpecMain == Init /\ [][MainNext]_vars

\* ------------------------------------------------------------- overlapping callers
\* variant: a call waits until no other coroutine is inside the engine
MayStart_locked(t) == AllIdle

\* check_available_appointments takes no lock and keeps no in-flight marker: a task can
\* call it whenever that task is not itself inside a call
MayStart(t) == frame[t].pc = "idle"

\* the arguments the overlapping callers pass
OverlapTypes == {"New appointment", "Emergency appointment"}
OverlapDates == {None, "Oct 10, 2025"}

\* check_available_appointments is called while another call may be suspended at an await
OverlappedCheck(t, appointment_type, date_preference) ==
    /\ MayStart(t)
    /\ CheckStart(t, appointment_type, date_preference)

NextOverlap ==
    \/ LabelChange
    \/ \E t \in Callers :
        \/ InitializeBrowser(t)
        \/ InitStart(t)
        \/ InitLaunch(t)
        \/ InitContext(t)
        \/ InitPage(t)
    \/ \E t \in Tasks :
        \/ \E ty \in OverlapTypes, d \in OverlapDates : OverlappedCheck(t, ty, d)
        \/ PageGoto(t)
        \/ WaitForLoadState(t)
        \/ NavigateError(t)
        \/ SelectAppointmentType(t)
        \/ SelectError(t)
        \/ SetDatePreference(t)
        \/ DateError(t)
        \/ WaitForSelector(t)
        \/ QuerySelectorAll(t)
        \/ SlotInnerText(t)
        \/ DateInnerText(t)
        \/ SlotsError(t)

SpecOverlap == Init /\ [][NextOverlap]_vars

\* ------------------------------------------------------------- properties
\* the capability invocations of a flow that completes every step, on a page of n slot elements
ExpectedTrace(a, n) ==
    <<Ev("goto", "url"), Ev("wait_for_load_state", "networkidle"), Ev("click", a[1])>>
    \o (IF Truthy(a[2]) THEN <<Ev("click", a[2])>> ELSE <<>>)
    \o <<Ev("wait_for_selector", ".time-slot"), Ev("query_selector_all", ".time-slot")>>
    \o [i \in 1..(2 * Min(n, SLOT_LIMIT)) |->
            IF i % 2 = 1 THEN Ev("inner_text", ".time-slot")
            ELSE Ev("inner_text", ".selected-date")]

\* C1: of two successive calls with identical arguments whose first succeeds, the second
\* is a cache hit that invokes no capability of the page and returns the list the first
\* returned (empty or not); the two calls together run exactly one flow when the first
\* was a miss.
CacheIdempotence ==
    (last.op = "query" /\ prev.ok /\ prev.args = last.args) =>
        /\ last.hit /\ last.ok
        /\ last.trace = <<>>
        /\ last.result = prev.result
        /\ prev.navs + Count(last.trace, "goto") = (IF prev.hit THEN 0 ELSE 1)

CacheIdempotenceWitness ==
    /\ last.op = "query" /\ last.hit
    /\ prev.ok /\ ~prev.hit /\ prev.args = last.args
    /\ last.result # <<>>

\* C2: a call whose appointment type is not recognised fails without navigation, without
\* a click and without a screenshot (stated for the runs in which no call into the browser
\* layer fails, so that the only failure is the rejected type).
InputValidationPrecedesInteraction ==
    (last.op = "query" /\ last.args[1] \notin RecognisedTypes /\ faults = 0) =>
        /\ ~last.ok
        /\ Count(last.trace, "goto") = 0
        /\ Count(last.trace, "click") = 0
        /\ Count(last.trace, "screenshot") = 0

\* C3 as stated: over serialized calls, successful or failing, the live site is navigated
\* at most once per distinct key.
NavigatedAtMostOncePerKey == \A a \in AllArgs : navCount[a] <= 1

\* C3 amended: no call navigates for a key that is in the cache, and at most one flow per
\* key ever completes and stores; failing calls leave the key uncached and may navigate again.
NavigatedOnlyWhileUncached ==
    /\ [](\A k \in DOMAIN stored : Len(stored[k]) = 1)
    /\ [][\A a \in AllArgs : KeyOf(a) \in DOMAIN state => navCount'[a] = navCount[a]]_vars

NavigatedOnlyWhileUncachedWitness ==
    /\ last.op = "query" /\ last.hit
    /\ navCount[last.args] = 1
    /\ last.result = <<>>

\* C4: a failing call leaves the cache unchanged (the cache changes only when a flow
\* completes every step, by that flow's store), its key is not cached afterwards, and the
\* next call with the same arguments misses the cache and attempts navigation again.
FailureNonCaching ==
    /\ []((last.op = "query" /\ ~last.ok) => KeyOf(last.args) \notin DOMAIN state)
    /\ []((last.op = "query" /\ ~prev.ok /\ prev.args = last.args) =>
            /\ ~last.hit
            /\ \/ last.trace # <<>> /\ last.trace[1].cap = "goto"
               \/ last.orig = <<"AttributeError", "goto">>)
    /\ [][state' # state =>
            /\ last'.op = "query" /\ last'.ok /\ ~last'.hit
            /\ last'.trace = ExpectedTrace(last'.args, Len(pageTexts))
            /\ state' = Store(state, KeyOf(last'.args), last'.result)]_vars

FailureNonCachingWitness ==
    /\ last.op = "query" /\ ~last.ok /\ ~last.hit
    /\ ~prev.ok /\ prev.args = last.args
    /\ Count(last.trace, "goto") = 1
    /\ navCount[last.args] = 2

\* C5: when a step fails on an open session and the screenshot of its except clause fails
\* too, the error that reaches the caller is the step's error.
ScreenshotNeverMasks ==
    (last.op = "query" /\ ~last.ok /\ last.during = {"open"}) => last.err = last.orig

\* C6: every capability of the page is invoked while the session is open.
InvokedOnlyWhileOpen ==
    /\ last.during \subseteq {"open"}
    /\ \A t \in Tasks : frame[t].during \subseteq {"open"}

\* C7: arguments that differ only in the date preference (absent included) have different
\* cache keys, every cache entry is the list stored by a call with that entry's own
\* arguments, and a cache hit returns a list stored by a call with the same arguments.
CacheKeyDistinctness ==
    /\ \A ty \in InputTypes, d1, d2 \in InputDates :
            d1 # d2 => CacheKey(ty, d1) # CacheKey(ty, d2)
    /\ \A k \in DOMAIN state :
            /\ k \in DOMAIN stored
            /\ \A i \in 1..Len(stored[k]) : KeyOf(stored[k][i].args) = k
            /\ state[k] = stored[k][Len(stored[k])].result
    /\ (last.op = "query" /\ last.hit) =>
            \E i \in 1..Len(stored[KeyOf(last.args)]) :
                /\ stored[KeyOf(last.args)][i].args = last.args
                /\ stored[KeyOf(last.args)][i].result = last.result

CacheKeyDistinctnessWitness ==
    \E k1, k2 \in DOMAIN state :
        /\ k1[1] = k2[1] /\ k1[2] = None /\ k2[2] # None
        /\ state[k1] # state[k2]

\* C8: a successful scrape of a page with n slot elements returns min(n, 5) entries, the
\* i-th with the text of the i-th element in document order as its time and the page's
\* selected-date label (as it stood while the slots were read) as its date.
ResultBounding ==
    (last.op = "query" /\ last.ok /\ ~last.hit) =>
        /\ Len(last.result) = Min(Len(pageTexts), 5)
        /\ \A i \in 1..Len(last.result) :
            /\ last.result[i].time = pageTexts[i]
            /\ last.date0 <= last.result[i].date /\ last.result[i].date <= last.date1

ResultBoundingWitness ==
    /\ last.op = "query" /\ last.ok /\ ~last.hit
    /\ Len(pageTexts) > 5 /\ Len(last.result) = 5
    /\ last.result[5] = [date |-> selectedDate, time |-> pageTexts[5]]

\* C9: when the wait succeeds and the query returns no element, the call returns the
\* empty list without raising and without a screenshot, and the empty list is cached.
EmptyButSuccessful ==
    (/\ last.op = "query" /\ ~last.hit /\ pageTexts = <<>>
     /\ last.trace # <<>> /\ last.trace[Len(last.trace)].cap = "query_selector_all") =>
        /\ last.ok /\ last.result = <<>>
        /\ Count(last.trace, "screenshot") = 0
        /\ KeyOf(last.args) \in DOMAIN state
        /\ state[KeyOf(last.args)] = <<>>

EmptyButSuccessfulWitness ==
    /\ last.op = "query" /\ ~last.hit /\ last.ok /\ pageTexts = <<>>
    /\ last.trace = ExpectedTrace(last.args, 0)
    /\ state[KeyOf(last.args)] = <<>>

\* C10: close_browser called on a closed (or never opened) session invokes no release,
\* raises nothing and changes nothing; after one or more consecutive calls that follow an
\* open session and return, the flag is set and page, context, browser and driver are
\* each released, by exactly one release call each when no release step raised.
CloseIdempotent ==
    /\ []((life.op = "close" /\ life.ok /\ life.followsOpen) =>
            /\ closed
            /\ \A h \in {page, context, browser, playwright} : h = "released"
            /\ ~closeRaised => \A r \in Resources : closeCalls[r] = 1)
    /\ [][(closes' # closes /\ closed) =>
            /\ UNCHANGED <<playwright, browser, context, page, closed, closeCalls, frame>>
            /\ life'.op = "close" /\ life'.ok /\ life'.trace = <<>>]_vars

CloseIdempotentWitness ==
    /\ life.op = "close" /\ life.ok /\ life.wasClosed /\ life.followsOpen
    /\ closes = 2
    /\ \A r \in Resources : closeCalls[r] = 1

\* the pcs of the four except clauses
Handlers == {"navigate_error", "select_error", "date_error", "slots_error"}

\* the pcs of a flow in flight
FlowPcs == {"goto", "wait_for_load_state", "select", "date_click", "wait_for_selector",
            "query_selector_all", "slot_inner_text", "date_inner_text"} \cup Handlers

IsPrefix(s, t) == Len(s) <= Len(t) /\ \A i \in 1..Len(s) : s[i] = t[i]

\* the invocations of a flow's steps: its trace without the screenshot of an except clause
StepsOf(trace) ==
    IF trace # <<>> /\ trace[Len(trace)].cap = "screenshot"
    THEN SubSeq(trace, 1, Len(trace) - 1)
    ELSE trace

\* C11: the steps of a cache miss are invoked in the order navigate, select type, set date
\* (if any), scrape, each at most once and each only after every earlier one returned; once
\* a step failed, the call invokes nothing more than the screenshot and ends; a call that
\* returns has run every step.
StrictStepOrder ==
    /\ [](\A t \in Tasks : frame[t].pc \in FlowPcs =>
            IsPrefix(StepsOf(frame[t].trace),
                     ExpectedTrace(<<frame[t].appointment_type, frame[t].date_preference>>,
                                   Len(pageTexts))))
    /\ []((last.op = "query" /\ ~last.hit) =>
            /\ IsPrefix(StepsOf(last.trace), ExpectedTrace(last.args, Len(pageTexts)))
            /\ Count(last.trace, "screenshot") <= 1
            /\ last.ok => last.trace = ExpectedTrace(last.args, Len(pageTexts)))
    /\ [][\A t \in Tasks :
            (frame[t].pc \in Handlers /\ frame'[t] # frame[t]) =>
                /\ frame'[t].pc = "idle"
                /\ last'.op = "query" /\ ~last'.ok
                /\ StepsOf(last'.trace) = frame[t].trace]_vars

StrictStepOrderWitness ==
    /\ last.op = "query" /\ ~last.ok /\ Truthy(last.args[2])
    /\ last.orig = <<"Error", "click">>
    /\ last.trace = <<Ev("goto", "url"), Ev("wait_for_load_state", "networkidle"),
                      Ev("click", last.args[1]), Ev("click", last.args[2]),
                      Ev("screenshot", "error_screenshot.png")>>

\* C12 as stated: a call that misses the cache and runs to the end clicks the date text
\* between the type click and the scrape exactly when its date preference is not absent.
DateStepIffPresent ==
    (last.op = "query" /\ ~last.hit /\ last.ok) =>
        (last.trace[4] = Ev("click", last.args[2]) <=> last.args[2] # None)

\* C12 amended: the date text is clicked, right after the type click and before the
\* scrape, exactly when the date preference is neither absent nor the empty string; with an
\* absent or empty preference the only click of the call is the type click, so no date
\* click is attempted and none can fail.
DateStepIffNonEmpty ==
    (last.op = "query" /\ ~last.hit) =>
        /\ Len(StepsOf(last.trace)) >= 4 =>
                (last.trace[4] = Ev("click", last.args[2]) <=> last.args[2] \notin {None, ""})
        /\ last.ok => (Count(last.trace, "click") = 2 <=> last.args[2] \notin {None, ""})
        /\ last.args[2] \in {None, ""} =>
                \A i \in 1..Len(last.trace) :
                    last.trace[i].cap = "click" => /\ i = 3
                                                   /\ last.trace[i].arg = last.args[1]

DateStepIffNonEmptyWitness ==
    /\ last.op = "query" /\ ~last.hit /\ last.ok
    /\ last.args[2] = ""
    /\ Count(last.trace, "click") = 1
    /\ last.trace[4] = Ev("wait_for_selector", ".time-slot")

\* C13: every slot of one returned list carries the same date value, also when the page's
\* selected-date label changes while the slots are being read.
SharedDateLabel ==
    (last.op = "query" /\ last.ok /\ ~last.hit) =>
        \A i, j \in 1..Len(last.result) : last.result[i].date = last.result[j].date

\* C14: once a list is stored under a key, the cache holds that list under that key for
\* the rest of the engine's lifetime, whatever later calls and the holders of returned
\* lists do, and every later cache hit returns it.
CacheAppendOnly ==
    /\ \A k \in DOMAIN stored : k \in DOMAIN state /\ state[k] = stored[k][1].result
    /\ (last.op = "query" /\ last.hit) => last.result = stored[KeyOf(last.args)][1].result

\* main() has left its try block: no coroutine is running, and initialize_browser raised or
\* the query returned or raised
TryLeft ==
    /\ AllIdle
    /\ \/ life.op = "init" /\ ~life.ok
       \/ calls = 1 /\ last.op = "query"

\* C15: in every run of main, whether the query returns or fails in any of its steps,
\* close_browser is called once the try block is left, only after the query has finished
\* and at most once; no release is invoked twice; and when the session was opened and
\* close_browser returns, page, context, browser and driver have each been released by
\* exactly one release call and the flag is set.
GuaranteedRelease ==
    /\ []((TryLeft /\ closes = 0) => ENABLED (\E t \in Callers : MainFinally(t)))
    /\ [](closes <= 1 /\ \A r \in Resources : closeCalls[r] <= 1)
    /\ []((calls = 1 /\ AllIdle /\ life.op = "close" /\ life.ok) =>
            /\ closed
            /\ \A h \in {page, context, browser, playwright} : h = "released"
            /\ \A r \in Resources : closeCalls[r] = 1)
    /\ [][closes' # closes => (TryLeft /\ ~ENABLED (\E t \in Callers : MainQuery(t)))]_vars

GuaranteedReleaseWitness ==
    /\ calls = 1 /\ AllIdle /\ life.op = "close" /\ life.ok
    /\ ~prev.ok /\ prev.args = <<"New appointment", None>> /\ prev.navs = 1
    /\ page = "released" /\ playwright = "released"

\* C16: when a capability of the page fails during navigation, type click, date click or
\* scrape on an open session, the call invokes exactly one screenshot, as the next
\* invocation after the failed one and the last of the call, and the error that reaches the
\* caller is the failed step's error.
ScreenshotThenReraise ==
    (last.op = "query" /\ ~last.ok /\ last.orig[1] = "Error" /\ last.during = {"open"}) =>
        /\ Count(last.trace, "screenshot") = 1
        /\ last.trace[Len(last.trace)].cap = "screenshot"
        /\ Len(last.trace) >= 2 /\ last.trace[Len(last.trace) - 1].cap = last.orig[2]
        /\ last.err = last.orig

\* C17: nothing serialises overlapping calls: a task that is not inside a call can start
\* one whatever the other task is doing, and a call that missed the cache goes on to
\* navigate whatever has been stored since its lookup.
NoSerialisation ==
    /\ [](\A t \in Tasks : (frame[t].pc = "idle" /\ calls < MaxCalls) =>
                ENABLED (\E ty \in OverlapTypes, d \in OverlapDates :
                            OverlappedCheck(t, ty, d)))
    /\ [][\A t \in Tasks : (frame[t].pc = "goto" /\ frame'[t] # frame[t]) =>
                frame'[t].pc \in {"wait_for_load_state", "navigate_error"}]_vars

\* two calls with the same key are in flight together, both missed and both navigated, and
\* one of them has cached slots it scraped after the other's navigation
NoSerialisationWitness ==
    /\ last.op = "query" /\ last.ok /\ ~last.hit /\ last.result # <<>>
    /\ last.actor \notin {0, last.by}
    /\ navCount[last.args] = 2
    /\ state[KeyOf(last.args)] = last.result
    /\ \E u \in Tasks \ {last.by} :
            /\ frame[u].pc \in FlowPcs \ {"goto"}
            /\ <<frame[u].appointment_type, frame[u].date_preference>> = last.args

\* C18: between calls, also after initialize_browser or close_browser failed part-way, the
\* closed flag is set only when none of driver, browser, context and page is held.
ClosedTracksHeld ==
    (AllIdle /\ closed) => \A h \in {playwright, browser, context, page} : h # "held"

====
